---- MODULE Spec2Model ----
(***************************************************************************)
(* A model of my_async_minihttp: the request decoder (src/src/request.rs), *)
(* the response encoder (src/src/response.rs), the cached clock            *)
(* (src/src/date.rs) and the connection handler and acceptor               *)
(* (src/src/server.rs).                                                    *)
(*                                                                         *)
(* Bytes are their ASCII codes; byte strings are sequences of bytes.       *)
(* usize arithmetic: a subtraction below zero panics in a build with       *)
(* overflow checks and wraps modulo 2^64 without them; the build is the    *)
(* variable overflow_checks.  A wrapped value is kept as its negative      *)
(* representative v - 2^64, which no byte count of the model ever equals.  *)
(***************************************************************************)
EXTENDS Integers, Sequences, FiniteSets, TLC

\* ------------------------------------------------------------------------
\* Byte strings
\* ------------------------------------------------------------------------
CRLF == <<13, 10>>
CRLFCRLF == <<13, 10, 13, 10>>
STR_GET == <<71, 69, 84>>
STR_POST == <<80, 79, 83, 84>>
STR_BAD == <<66, 65, 68>>
STR_SP == <<32>>
STR_SLASH == <<47>>
STR_SLASH_A == <<47, 97>>
STR_HTTP11 == <<72, 84, 84, 80, 47, 49, 46, 49>>
STR_HTTP10 == <<72, 84, 84, 80, 47, 49, 46, 48>>
STR_HTTP20 == <<72, 84, 84, 80, 47, 50, 46, 48>>
STR_COLON_SP == <<58, 32>>
STR_CONTENT_LENGTH == <<67, 111, 110, 116, 101, 110, 116, 45, 76, 101, 110, 103, 116, 104>>
STR_content_length == <<99, 111, 110, 116, 101, 110, 116, 45, 108, 101, 110, 103, 116, 104>>
STR_HOST == <<72, 111, 115, 116>>
STR_X == <<120>>

Drop(s, n) == SubSeq(s, n + 1, Len(s))

Take(s, n) == SubSeq(s, 1, n)

IsPrefix(p, s) == Len(p) <= Len(s) /\ Take(s, Len(p)) = p

IsSuffix(p, s) == Len(p) <= Len(s) /\ Drop(s, Len(s) - Len(p)) = p

\* ------------------------------------------------------------------------
\* httparse::Request::parse, as called by decode (src/src/request.rs:60-67)
\* ------------------------------------------------------------------------
MAX_HEADERS == 256

\* httparse's token table: visible ASCII without the separators.
IsToken(b) ==
    /\ b > 32
    /\ b < 127
    /\ b \notin {34, 40, 41, 44, 47, 58, 59, 60, 61, 62, 63, 64, 91, 92, 93, 123, 125}

\* httparse's URI table: visible ASCII without  " < > \ ^ ` { | }
IsUriChar(b) ==
    /\ b > 32
    /\ b < 127
    /\ b \notin {34, 60, 62, 92, 94, 96, 123, 124, 125}

\* httparse's header value table: HTAB, SP, visible ASCII, obs-text.
IsHeaderValueChar(b) == b = 9 \/ (b >= 32 /\ b # 127)

PPartial == [st |-> "Partial", pos |-> 0, err |-> "none"]

PError(e) == [st |-> "Error", pos |-> 0, err |-> e]

PAt(i) == [st |-> "At", pos |-> i, err |-> "none"]

\* Skips CRLF / LF before the request line; pos is the first other byte.
RECURSIVE SkipEmptyLines(_, _)
SkipEmptyLines(buf, i) ==
    IF i > Len(buf) THEN PPartial
    ELSE IF buf[i] = 13
         THEN IF i + 1 > Len(buf) THEN PPartial
              ELSE IF buf[i + 1] = 10 THEN SkipEmptyLines(buf, i + 2)
              ELSE PError("NewLine")
    ELSE IF buf[i] = 10 THEN SkipEmptyLines(buf, i + 1)
    ELSE PAt(i)

\* Scans a token up to the byte stop; pos is the index of the stop byte.
RECURSIVE ScanToken(_, _, _, _)
ScanToken(buf, i, stop, e) ==
    IF i > Len(buf) THEN PPartial
    ELSE IF buf[i] = stop THEN PAt(i)
    ELSE IF IsToken(buf[i]) THEN ScanToken(buf, i + 1, stop, e)
    ELSE PError(e)

\* Scans the request target up to the space that ends it.
RECURSIVE ScanUri(_, _)
ScanUri(buf, i) ==
    IF i > Len(buf) THEN PPartial
    ELSE IF buf[i] = 32 THEN PAt(i)
    ELSE IF IsUriChar(buf[i]) THEN ScanUri(buf, i + 1)
    ELSE PError("Token")

\* "HTTP/1.0" or "HTTP/1.1"; pos is the version digit's value.
ParseVersion(buf, i) ==
    IF i + 7 <= Len(buf)
    THEN LET eight == SubSeq(buf, i, i + 7)
         IN  IF eight = STR_HTTP10 THEN PAt(0)
             ELSE IF eight = STR_HTTP11 THEN PAt(1)
             ELSE PError("Version")
    ELSE IF IsPrefix(SubSeq(buf, i, Len(buf)), Take(STR_HTTP11, 7))
         THEN PPartial
         ELSE PError("Version")

\* A line end at i: CRLF or a bare LF; pos is the index after it.
NewLine(buf, i, e) ==
    IF i > Len(buf) THEN PPartial
    ELSE IF buf[i] = 13
         THEN IF i + 1 > Len(buf) THEN PPartial
              ELSE IF buf[i + 1] = 10 THEN PAt(i + 2)
              ELSE PError(e)
    ELSE IF buf[i] = 10 THEN PAt(i + 1)
    ELSE PError(e)

RECURSIVE SkipBlank(_, _)
SkipBlank(buf, i) ==
    IF i > Len(buf) THEN PPartial
    ELSE IF buf[i] = 32 \/ buf[i] = 9 THEN SkipBlank(buf, i + 1)
    ELSE PAt(i)

\* Scans a header value; pos is the index of the CR or LF that ends it.
RECURSIVE ScanValue(_, _)
ScanValue(buf, i) ==
    IF i > Len(buf) THEN PPartial
    ELSE IF buf[i] = 13 \/ buf[i] = 10 THEN PAt(i)
    ELSE IF IsHeaderValueChar(buf[i]) THEN ScanValue(buf, i + 1)
    ELSE PError("HeaderValue")

\* The value without its trailing spaces and tabs: the end index (exclusive).
RECURSIVE TrimEnd(_, _, _)
TrimEnd(buf, from, to) ==
    IF to > from /\ (buf[to - 1] = 32 \/ buf[to - 1] = 9)
    THEN TrimEnd(buf, from, to - 1)
    ELSE to

HPartial == [st |-> "Partial", amt |-> 0, err |-> "none", headers |-> <<>>]

HError(e) == [st |-> "Error", amt |-> 0, err |-> e, headers |-> <<>>]

HFrom(p) == IF p.st = "Partial" THEN HPartial ELSE HError(p.err)

\* The header lines from index i on.  A header is <<name, value>>, each a
\* half-open range <<start, end>> of 0-based offsets into buf.  amt is the
\* number of bytes up to and including the blank line.  The steps of one
\* line: the name up to the colon (at name), the blanks after it (the value
\* starts at vstart), the value (it ends before vend), the line end (the
\* next line starts at nl).
RECURSIVE ParseHeaders(_, _, _)
HeaderLineEnd(buf, i, acc, name, vstart, vend, nl) ==
    IF nl.st # "At" THEN HFrom(nl)
    ELSE ParseHeaders(buf, nl.pos,
                      Append(acc, <<<<i - 1, name - 1>>,
                                    <<vstart - 1, TrimEnd(buf, vstart, vend) - 1>>>>))

HeaderValueEnd(buf, i, acc, name, vstart, vend) ==
    IF vend.st # "At" THEN HFrom(vend)
    ELSE HeaderLineEnd(buf, i, acc, name, vstart, vend.pos, NewLine(buf, vend.pos, "HeaderValue"))

HeaderValueStart(buf, i, acc, name, vstart) ==
    IF vstart.st # "At" THEN HFrom(vstart)
    ELSE HeaderValueEnd(buf, i, acc, name, vstart.pos, ScanValue(buf, vstart.pos))

HeaderName(buf, i, acc, name) ==
    IF name.st # "At" THEN HFrom(name)
    ELSE HeaderValueStart(buf, i, acc, name.pos, SkipBlank(buf, name.pos + 1))

ParseHeaders(buf, i, acc) ==
    IF i > Len(buf) THEN HPartial
    ELSE IF buf[i] = 13
         THEN IF i + 1 > Len(buf) THEN HPartial
              ELSE IF buf[i + 1] = 10
                   THEN [st |-> "Complete", amt |-> i + 1, err |-> "none", headers |-> acc]
                   ELSE HError("NewLine")
    ELSE IF buf[i] = 10
         THEN [st |-> "Complete", amt |-> i, err |-> "none", headers |-> acc]
    ELSE IF ~IsToken(buf[i]) THEN HError("HeaderName")
    ELSE IF Len(acc) >= MAX_HEADERS THEN HError("TooManyHeaders")
    ELSE HeaderName(buf, i, acc, ScanToken(buf, i + 1, 58, "HeaderName"))

RPartial ==
    [st |-> "Partial", amt |-> 0, err |-> "none", method |-> <<0, 0>>, path |-> <<0, 0>>,
     version |-> 0, headers |-> <<>>]

RError(e) == [RPartial EXCEPT !.st = "Error", !.err = e]

RFrom(p) == IF p.st = "Partial" THEN RPartial ELSE RError(p.err)

\* The steps of httparse::Request::parse: the method starts at index s0 and
\* ends before the space at m, the target ends before the space at u, the
\* version digit is v, the header lines start at nl and parse to hdrs.
ParseRequestDone(s0, m, u, v, hdrs) ==
    IF hdrs.st # "Complete" THEN RFrom(hdrs)
    ELSE [st |-> "Complete", amt |-> hdrs.amt, err |-> "none",
          method |-> <<s0 - 1, m - 1>>,
          path |-> <<m, u - 1>>,
          version |-> v,
          headers |-> hdrs.headers]

ParseRequestHeaders(buf, s0, m, u, v, nl) ==
    IF nl.st # "At" THEN RFrom(nl)
    ELSE ParseRequestDone(s0, m, u, v, ParseHeaders(buf, nl.pos, <<>>))

ParseRequestVersion(buf, s0, m, u, v) ==
    IF v.st # "At" THEN RFrom(v)
    ELSE ParseRequestHeaders(buf, s0, m, u, v.pos, NewLine(buf, u + 9, "NewLine"))

ParseRequestUri(buf, s0, m, u) ==
    IF u.st # "At" THEN RFrom(u)
    ELSE ParseRequestVersion(buf, s0, m, u.pos, ParseVersion(buf, u.pos + 1))

ParseRequestMethod(buf, s0, m) ==
    IF m.st # "At" THEN RFrom(m)
    ELSE IF m.pos + 1 > Len(buf) THEN RPartial
    ELSE IF ~IsUriChar(buf[m.pos + 1]) THEN RError("Token")
    ELSE ParseRequestUri(buf, s0, m.pos, ScanUri(buf, m.pos + 2))

ParseRequestLine(buf, s0) ==
    IF s0.st # "At" THEN RFrom(s0)
    ELSE IF ~IsToken(buf[s0.pos]) THEN RError("Token")
    ELSE ParseRequestMethod(buf, s0.pos, ScanToken(buf, s0.pos + 1, 32, "Token"))

\* httparse::Request::parse(buf): Complete with the parsed ranges and the
\* head's length, Partial, or an error.
HttparseParse(buf) == ParseRequestLine(buf, SkipEmptyLines(buf, 1))

\* ------------------------------------------------------------------------
\* request.rs: Request and decode
\* ------------------------------------------------------------------------
IsDigit(b) == b >= 48 /\ b <= 57

RECURSIVE DigitsValue(_, _)
DigitsValue(ds, acc) ==
    IF ds = <<>> THEN acc ELSE DigitsValue(Tail(ds), acc * 10 + (Head(ds) - 48))

\* usize::from_str_radix(src, 10): an optional '+', then one or more decimal
\* digits.  (A value of 2^64 or more is an error too; the model's inputs
\* stay far below it.)
FromStrRadix10(src) ==
    LET ds == IF src # <<>> /\ Head(src) = 43 THEN Tail(src) ELSE src
    IN  IF ds # <<>> /\ \A i \in 1..Len(ds) : IsDigit(ds[i])
        THEN [ok |-> TRUE, val |-> DigitsValue(ds, 0)]
        ELSE [ok |-> FALSE, val |-> 0]

\* Slice starting one byte late.
SliceMut(data, range) == SubSeq(data, range[1] + 2, range[2])

\* &buf[range.0..range.1]
Slice(data, range) == SubSeq(data, range[1] + 1, range[2])

\* name == "Content-Length": an exact byte comparison.
IsContentLength(name) == name = STR_CONTENT_LENGTH

\* HeaderBodyLen taking a Content-Length that does not parse for 1.
HeaderBodyLenMut(name, parsed, body_len) ==
    IF IsContentLength(name) THEN (IF parsed.ok THEN parsed.val ELSE 1) ELSE body_len

\* The value a header gives body_len: that of a Content-Length header that
\* parses, 0 for one that does not, the value so far for any other header.
HeaderBodyLen(name, parsed, body_len) ==
    IF IsContentLength(name) THEN (IF parsed.ok THEN parsed.val ELSE 0) ELSE body_len

\* The loop over the parsed headers: the last Content-Length header sets
\* body_len.
RECURSIVE BodyLen(_, _, _)
BodyLen(buf, hdrs, body_len) ==
    IF hdrs = <<>> THEN body_len
    ELSE BodyLen(buf, Tail(hdrs),
                 HeaderBodyLen(Slice(buf, Head(hdrs)[1]),
                               FromStrRadix10(Slice(buf, Head(hdrs)[2])),
                               body_len))

NoBody == [some |-> FALSE, bytes |-> <<>>]

SomeBody(b) == [some |-> TRUE, bytes |-> b]

NoRequest ==
    [method |-> <<0, 0>>, path |-> <<0, 0>>, version |-> 0, headers |-> <<>>,
     data |-> <<>>, body |-> NoBody, header_len |-> 0, body_len |-> 0]

\* DecodeStatus emptying the buffer when the head is partial.
DecodeStatusMut(buf, status) ==
    IF status.st = "Error"
    THEN [res |-> "Err", err |-> status.err, req |-> NoRequest, buf |-> buf]
    ELSE IF status.st = "Partial"
    THEN [res |-> "None", err |-> "none", req |-> NoRequest, buf |-> <<>>]
    ELSE [res |-> "Some", err |-> "none",
          req |-> [method |-> status.method,
                   path |-> status.path,
                   version |-> status.version,
                   headers |-> status.headers,
                   data |-> Take(buf, status.amt),
                   body |-> NoBody,
                   header_len |-> Len(status.headers),
                   body_len |-> BodyLen(buf, status.headers, 0)],
          buf |-> Drop(buf, status.amt)]

\* decode after req.parse(buf) returned status.
DecodeStatus(buf, status) ==
    IF status.st = "Error"
    THEN [res |-> "Err", err |-> status.err, req |-> NoRequest, buf |-> buf]
    ELSE IF status.st = "Partial"
    THEN [res |-> "None", err |-> "none", req |-> NoRequest, buf |-> buf]
    ELSE [res |-> "Some", err |-> "none",
          req |-> [method |-> status.method,
                   path |-> status.path,
                   version |-> status.version,
                   headers |-> status.headers,
                   data |-> Take(buf, status.amt),
                   body |-> NoBody,
                   header_len |-> Len(status.headers),
                   body_len |-> BodyLen(buf, status.headers, 0)],
          buf |-> Drop(buf, status.amt)]

\* decode(buf): res is "Some" (a request, and buf left without the head),
\* "None" (partial) or "Err"; buf is the buffer after the call.
Decode(buf) == DecodeStatus(buf, HttparseParse(buf))

SetBody(req, body) == [req EXCEPT !.body = SomeBody(body)]

Method(req) == Slice(req.data, req.method)

Path(req) == Slice(req.data, req.path)

\* The headers iterator: the first header_len pairs, resolved against data.
Headers(req) ==
    [i \in 1..req.header_len |->
        <<Slice(req.data, req.headers[i][1]), Slice(req.data, req.headers[i][2])>>]

\* What the callback can observe of a request.
View(req) ==
    [method |-> Method(req), path |-> Path(req), version |-> req.version,
     headers |-> Headers(req), body |-> req.body]

\* ------------------------------------------------------------------------
\* date.rs: the cached clock.  Time is counted in ticks, TICKS_PER_SEC of
\* them to the second; to_rfc2822 has a resolution of one second.
\* ------------------------------------------------------------------------
TICKS_PER_SEC == 3

CACHE_BYTES == 128

RECURSIVE Dec(_)
Dec(n) == IF n < 10 THEN <<48 + n>> ELSE Dec(n \div 10) \o <<48 + (n % 10)>>

Dec2(n) == <<48 + ((n \div 10) % 10), 48 + (n % 10)>>

STR_DATE_PREFIX == <<84, 104, 117, 44, 32, 49, 32, 74, 97, 110, 32, 49, 57, 55, 48, 32>>
STR_ZONE == <<32, 43, 48, 48, 48, 48>>

\* now.to_rfc2822() on the epoch's first day: "Thu, 1 Jan 1970 HH:MM:SS +0000".
ToRfc2822(now) ==
    LET secs == now \div TICKS_PER_SEC
    IN  STR_DATE_PREFIX \o Dec2(secs \div 3600) \o <<58>> \o Dec2((secs \div 60) % 60)
            \o <<58>> \o Dec2(secs % 60) \o STR_ZONE

NoUpdate == [some |-> FALSE, t |-> 0]

\* LAST's initial value.
NewCachedNow == [bytes |-> [i \in 1..CACHE_BYTES |-> 0], amt |-> 0, next_update |-> NoUpdate]

\* TimeBuffer::write_str: copies s into bytes at amt.
WriteStr(cache, s) ==
    [cache EXCEPT !.bytes = [i \in 1..CACHE_BYTES |->
                                IF i > cache.amt /\ i <= cache.amt + Len(s)
                                THEN s[i - cache.amt] ELSE cache.bytes[i]],
                  !.amt = cache.amt + Len(s)]

\* CachedNow::buffer
Buffer(cache) == Take(cache.bytes, cache.amt)

\* NextUpdate a tick short of a second.
NextUpdateMut(now) == now + TICKS_PER_SEC - 1

\* The instant at which a cache written at now stops being served.
NextUpdate(now) == now + TICKS_PER_SEC

\* CachedNow::update
Update(cache, now) ==
    [WriteStr([cache EXCEPT !.amt = 0], ToRfc2822(now))
        EXCEPT !.next_update = [some |-> TRUE, t |-> NextUpdate(now)]]

\* Expired re-formatting already at the instant next_update.
ExpiredMut(cache, now) == ~cache.next_update.some \/ now >= cache.next_update.t

\* Whether Now::fmt re-formats at now.
Expired(cache, now) == ~cache.next_update.some \/ now > cache.next_update.t

\* Now::fmt: the cache after the call; the text written is its Buffer.
NowFmt(cache, now) == IF Expired(cache, now) THEN Update(cache, now) ELSE cache

\* ------------------------------------------------------------------------
\* response.rs: the response builder and its encoding
\* ------------------------------------------------------------------------
STR_HTTP11_SP == STR_HTTP11 \o <<32>>
STR_200_OK == <<50, 48, 48, 32, 79, 75>>
STR_SERVER == <<83, 101, 114, 118, 101, 114, 58, 32, 69, 120, 97, 109, 112, 108, 101>>
STR_DATE_SP == <<68, 97, 116, 101, 58, 32>>
STR_INTERNAL_SERVER_ERROR ==
    <<73, 110, 116, 101, 114, 110, 97, 108, 32, 83, 101, 114, 118, 101, 114, 32, 69, 114, 114, 111, 114>>

StatusOk == [kind |-> "Ok", code |-> 0, msg |-> <<>>]

StatusCustom(code, msg) == [kind |-> "Custom", code |-> code, msg |-> msg]

\* Response::new
NewResponse == [headers |-> <<>>, response |-> <<>>, status_msg |-> StatusOk]

\* Response::status_code
StatusCode(resp, code, msg) == [resp EXCEPT !.status_msg = StatusCustom(code, msg)]

\* Response::header
Header(resp, name, val) == [resp EXCEPT !.headers = Append(@, <<name, val>>)]

\* Body without the clear: s is put after the body set before.
BodyMut(resp, s) == [resp EXCEPT !.response = @ \o s]

\* Response::body: clears the body, then puts s.
Body(resp, s) == [resp EXCEPT !.response = s]

\* Response::body_bytes: clears the body, then puts s.
BodyBytes(resp, s) == [resp EXCEPT !.response = s]

\* StatusMsg's Display
StatusFmt(sm) ==
    IF sm.kind = "Ok" THEN STR_200_OK ELSE Dec(sm.code) \o <<32>> \o sm.msg

RECURSIVE HeaderLines(_)
HeaderLines(hs) ==
    IF hs = <<>> THEN <<>>
    ELSE Head(hs)[1] \o STR_COLON_SP \o Head(hs)[2] \o CRLF \o HeaderLines(Tail(hs))

\* Response::encode, with the text the cached clock wrote for the Date header.
Encode(resp, date) ==
    STR_HTTP11_SP \o StatusFmt(resp.status_msg) \o CRLF
        \o STR_SERVER \o CRLF
        \o STR_CONTENT_LENGTH \o STR_COLON_SP \o Dec(Len(resp.response)) \o CRLF
        \o STR_DATE_SP \o date \o CRLF
        \o HeaderLines(resp.headers)
        \o CRLF
        \o resp.response

\* internal_error_resp(e): e is the error's text.
InternalErrorResp(e) == Body(StatusCode(NewResponse, 500, STR_INTERNAL_SERVER_ERROR), e)

\* ------------------------------------------------------------------------
\* server.rs: one iteration of handler's read loop, from a read that
\* returned the bytes chunk to the next await or exit
\* ------------------------------------------------------------------------
NoneLen == [some |-> FALSE, v |-> 0]

SomeLen(v) == [some |-> TRUE, v |-> v]

\* handler's locals before the first read.
NewHandler ==
    [bytes_pool |-> <<>>, req_bytes_cnt |-> 0, reading_body |-> FALSE,
     remain_body_len |-> NoneLen, req_slot |-> NoRequest]

\* The outcomes of an iteration: next is "read" (loop again), "call"
\* (process_and_write_response with req), "return" (Ok(())) or "panic";
\* line is the source line that panicked, 0 when none did.
Outcome(h, next, req, dec) ==
    [h |-> h, next |-> next, req |-> req, decode_res |-> dec, decoded |-> NoRequest, line |-> 0]

\* The iteration panics at line.
Panic(h, line, dec) ==
    [h |-> h, next |-> "panic", req |-> NoRequest, decode_res |-> dec, decoded |-> NoRequest,
     line |-> line]

\* a - b on usize: ok is FALSE when the build panics on it.
USub(a, b, oc) == [ok |-> ~(oc /\ a >= 0 /\ a < b), v |-> a - b]

\* &bytes_pool[req_bytes_cnt - 4..req_bytes_cnt]: the index is in range.
TailInRange(pool, cnt) == cnt >= 4 /\ cnt <= Len(pool)

\* section_end: the 4 bytes before req_bytes_cnt are a blank line.
SectionEnd(pool, cnt) == SubSeq(pool, cnt - 3, cnt) = CRLFCRLF

\* HasBody with the comparison off by one: a declared length of 0 has a body.
HasBodyMut(req) == req.body_len >= 0

\* if req.body_len > 0
HasBody(req) == req.body_len > 0

\* OnDecodeErr as if a malformed head were a partial one: the loop goes on.
OnDecodeErrMut(h) == Outcome(h, "read", NoRequest, "Err")

\* Err(e) from decode: the error is logged and the handler returns Ok(()).
OnDecodeErr(h) == Outcome(h, "return", NoRequest, "Err")

\* Ok(None) from decode: the handler returns Ok(()).
OnDecodeNone(h) == Outcome(h, "return", NoRequest, "None")

\* bytes_pool.split_to(req.body_len), set_body, process_and_write_response.
TakeBody(h, req, dec) ==
    IF req.body_len > Len(h.bytes_pool)
    THEN Panic(h, IF dec = "Some" THEN 154 ELSE 181, dec)
    ELSE Outcome([h EXCEPT !.bytes_pool = Drop(h.bytes_pool, req.body_len),
                           !.req_slot = NoRequest],
                 "call", SetBody(req, Take(h.bytes_pool, req.body_len)), dec)

\* Ok(Some(req)) from decode with a body to come: h.bytes_pool is what
\* decode left of the buffer, remain is req.body_len - bytes_pool.len().
OnDecodeBody(h, req, remain) ==
    IF ~remain.ok THEN Panic(h, 151, "Some")
    ELSE IF remain.v = 0 THEN TakeBody(h, req, "Some")
    ELSE Outcome([h EXCEPT !.remain_body_len = SomeLen(remain.v),
                           !.req_bytes_cnt = Len(h.bytes_pool),
                           !.req_slot = req],
                 "read", NoRequest, "Some")

\* Ok(Some(req)) from decode.
OnDecodeSome(h, req, oc) ==
    IF HasBody(req)
    THEN OnDecodeBody([h EXCEPT !.reading_body = TRUE], req,
                      USub(req.body_len, Len(h.bytes_pool), oc))
    ELSE Outcome(h, "call", req, "Some")

\* match request::decode(&mut bytes_pool), d being what decode returned.
OnDecode(h, d, oc) ==
    IF d.res = "Some"
    THEN [OnDecodeSome([h EXCEPT !.bytes_pool = d.buf], d.req, oc) EXCEPT !.decoded = d.req]
    ELSE IF d.res = "None" THEN OnDecodeNone(h)
    ELSE OnDecodeErr(h)

\* if section_end { if !reading_body { match decode } else { if Some(0) } }
OnSectionEnd(h, oc) ==
    IF ~h.reading_body
    THEN OnDecode(h, Decode(h.bytes_pool), oc)
    ELSE IF h.remain_body_len = SomeLen(0)
         THEN TakeBody(h, h.req_slot, "none")
         ELSE Outcome(h, "read", NoRequest, "none")

\* The locals after req_bytes_cnt += n, *k -= n and advance.
Committed(h, chunk) ==
    [h EXCEPT !.req_bytes_cnt = @ + Len(chunk),
              !.remain_body_len = IF @.some THEN SomeLen(@.v - Len(chunk)) ELSE @,
              !.bytes_pool = @ \o chunk]

\* The iteration from the section_end check on.
OnCommitted(h, oc) ==
    IF ~TailInRange(h.bytes_pool, h.req_bytes_cnt) THEN Panic(h, 144, "none")
    ELSE IF SectionEnd(h.bytes_pool, h.req_bytes_cnt) THEN OnSectionEnd(h, oc)
    ELSE Outcome(h, "read", NoRequest, "none")

\* Ok(n) from stream.read, n = Len(chunk) > 0.
OnRead(h, chunk, oc) ==
    IF h.remain_body_len.some /\ ~USub(h.remain_body_len.v, Len(chunk), oc).ok
    THEN Panic([h EXCEPT !.req_bytes_cnt = @ + Len(chunk)], 138, "none")
    ELSE OnCommitted(Committed(h, chunk), oc)

\* ------------------------------------------------------------------------
\* What a peer sends, and what a service does
\* ------------------------------------------------------------------------
STR_HELLO == <<104, 101, 108, 108, 111>>
STR_HI == <<104, 105>>
STR_A_BLANK == <<97>> \o CRLFCRLF
STR_BOOM == <<98, 111, 111, 109>>
STR_NOT_FOUND == <<78, 111, 116, 32, 70, 111, 117, 110, 100>>
STR_X_A == <<88, 45, 65>>
STR_X_B == <<88, 45, 66>>

RequestLine(method, path, version) == method \o STR_SP \o path \o STR_SP \o version \o CRLF

HeaderLine(name, val) == name \o STR_COLON_SP \o val \o CRLF

W_GET == RequestLine(STR_GET, STR_SLASH, STR_HTTP11) \o CRLF
W_HOST == RequestLine(STR_GET, STR_SLASH, STR_HTTP11) \o HeaderLine(STR_HOST, STR_X) \o CRLF
W_POST(name, len, body) ==
    RequestLine(STR_POST, STR_SLASH_A, STR_HTTP11) \o HeaderLine(name, len) \o CRLF \o body
W_BAD == STR_BAD \o CRLFCRLF
W_VERSION == RequestLine(STR_GET, STR_SLASH, STR_HTTP20) \o CRLF
W_BLANK == CRLFCRLF
W_LEADING == CRLF \o W_GET
STR_MINUS_5 == <<45, 53>>

\* Requests that follow the grammar and carry exactly the declared body.
WellFormedWires ==
    { W_GET,
      W_HOST,
      W_POST(STR_CONTENT_LENGTH, <<48>>, <<>>),
      W_POST(STR_CONTENT_LENGTH, <<53>>, STR_HELLO),
      W_POST(STR_CONTENT_LENGTH, <<53>>, STR_A_BLANK),
      W_POST(STR_CONTENT_LENGTH, <<50>>, STR_HI),
      W_POST(STR_content_length, <<53>>, STR_HELLO),
      W_POST(STR_content_length, <<53>>, STR_A_BLANK) }

\* Heads whose Content-Length is no base-10 unsigned integer.
BadLengthWires ==
    { W_POST(STR_CONTENT_LENGTH, STR_X, <<>>),
      W_POST(STR_CONTENT_LENGTH, STR_MINUS_5, <<>>) }

\* Everything a peer sends in the model: the well-formed requests, heads
\* that break the grammar, a blank line alone, an empty line before the
\* request line, a Content-Length that is no number, and a body longer than
\* declared.
Wires ==
    WellFormedWires \cup BadLengthWires \cup
    { W_BAD,
      W_VERSION,
      W_BLANK,
      W_LEADING,
      W_POST(STR_CONTENT_LENGTH, <<50>>, STR_HI \o CRLFCRLF) }

\* A service: the builder calls it makes, then whether it fails.
OpStatus(code, msg) == [op |-> "status_code", a |-> <<code>>, b |-> msg]

OpHeader(name, val) == [op |-> "header", a |-> name, b |-> val]

OpBody(b) == [op |-> "body", a |-> <<>>, b |-> b]

OpBodyBytes(b) == [op |-> "body_bytes", a |-> <<>>, b |-> b]

ApplyOp(resp, o) ==
    IF o.op = "status_code" THEN StatusCode(resp, o.a[1], o.b)
    ELSE IF o.op = "header" THEN Header(resp, o.a, o.b)
    ELSE IF o.op = "body" THEN Body(resp, o.b)
    ELSE BodyBytes(resp, o.b)

RECURSIVE RunScript(_, _)
RunScript(resp, script) ==
    IF script = <<>> THEN resp ELSE RunScript(ApplyOp(resp, Head(script)), Tail(script))

Scripts ==
    { <<>>,
      <<OpStatus(404, STR_NOT_FOUND), OpHeader(STR_X_A, STR_X), OpBody(STR_HI)>> }

NoErr == [some |-> FALSE, text |-> <<>>]

SomeErr(text) == [some |-> TRUE, text |-> text]

CallResults == {NoErr, SomeErr(STR_BOOM)}

Contexts == 1..2

\* ------------------------------------------------------------------------
\* State
\* ------------------------------------------------------------------------
VARIABLES
    overflow_checks,  \* the build panics on integer overflow
    wire,             \* the bytes the peer sends on the connection
    delivered,        \* how many of them reads have returned
    pc,               \* handler: "reading", "calling", "writing", "done", "panicked"
    result,           \* handler's return value: "none", "Ok", "Err"
    hs,               \* handler's locals (NewHandler)
    decode_res,       \* what the call of decode returned: "none" before it
    decoded,          \* the request it returned
    reads_after_decode, \* reads that returned bytes since decode returned a request
    calls,            \* calls of the service
    call_req,         \* the request the service was called with
    cb_resp,          \* the builder as the service left it
    cb_err,           \* the service's failure
    resp_bytes,       \* process_and_write_response: bytes not yet written
    left,             \* process_and_write_response: their count
    written,          \* bytes written to the socket
    write_zero,       \* a write returned Ok(0)
    read_ret,         \* what the last stream.read returned: "none", "some", "zero", "err"
    panic_at,         \* the source line at which the handler panicked, 0 if it did not
    now,              \* the clock, in ticks
    LAST,             \* the cached clock of each execution context
    caller,           \* the context of the last step if it asked the cached clock, else 0
    last_text,        \* per context: the text its last call returned
    last_call,        \* per context: the time of its last call, -1 before it
    first_seen,       \* per context: the time of the first call that returned last_text
    formatted,        \* per context: the times at which its cache was formatted, in order
    builder,          \* a response builder under construction
    set_status,       \* what the last status_code call on it passed, if any
    set_body,         \* what the last body or body_bytes call on it passed
    added,            \* what the header calls on it passed, in order
    n_ops,            \* the number of calls on it
    encoded,          \* what encode returned for it
    enc_ctx,          \* the context encode ran in, 0 before it
    acc_pc,           \* acceptor: "accepting", "draining", "done"
    acc_result,       \* the acceptor's result
    task,             \* per spawned handler: "running", "Ok" or "Err"
    handles,          \* the acceptor's Vec of join handles
    sweep,            \* retain: the index of the next handle it visits
    kept,             \* retain: the handles kept so far
    log               \* the handlers whose failure was logged

connVars ==
    <<overflow_checks, wire, delivered, pc, result, hs, decode_res, decoded, reads_after_decode,
      calls, call_req, cb_resp, cb_err, resp_bytes, left, written, write_zero, read_ret,
      panic_at>>

clockVars == <<now, LAST, caller, last_text, last_call, first_seen, formatted>>

encVars == <<builder, set_status, set_body, added, n_ops, encoded, enc_ctx>>

accVars == <<acc_pc, acc_result, task, handles, sweep, kept, log>>

vars == <<connVars, clockVars, encVars, accVars>>

InitConn ==
    /\ overflow_checks \in BOOLEAN
    /\ wire \in Wires
    /\ delivered = 0
    /\ pc = "reading"
    /\ result = "none"
    /\ hs = NewHandler
    /\ decode_res = "none"
    /\ decoded = NoRequest
    /\ reads_after_decode = 0
    /\ calls = 0
    /\ call_req = NoRequest
    /\ cb_resp = NewResponse
    /\ cb_err = NoErr
    /\ resp_bytes = <<>>
    /\ left = 0
    /\ written = <<>>
    /\ write_zero = FALSE
    /\ read_ret = "none"
    /\ panic_at = 0

\* No connection: the variables of the handler at rest.
InitNoConn ==
    /\ overflow_checks = TRUE
    /\ wire = <<>>
    /\ delivered = 0
    /\ pc = "none"
    /\ result = "none"
    /\ hs = NewHandler
    /\ decode_res = "none"
    /\ decoded = NoRequest
    /\ reads_after_decode = 0
    /\ calls = 0
    /\ call_req = NoRequest
    /\ cb_resp = NewResponse
    /\ cb_err = NoErr
    /\ resp_bytes = <<>>
    /\ left = 0
    /\ written = <<>>
    /\ write_zero = FALSE
    /\ read_ret = "none"
    /\ panic_at = 0

InitClock ==
    /\ now = 0
    /\ LAST = [c \in Contexts |-> NewCachedNow]
    /\ caller = 0
    /\ last_text = [c \in Contexts |-> <<>>]
    /\ last_call = [c \in Contexts |-> -1]
    /\ first_seen = [c \in Contexts |-> -1]
    /\ formatted = [c \in Contexts |-> <<>>]

NoStatus == [some |-> FALSE, digits |-> <<>>, msg |-> <<>>]

InitEnc ==
    /\ builder = NewResponse
    /\ set_status = NoStatus
    /\ set_body = <<>>
    /\ added = <<>>
    /\ n_ops = 0
    /\ encoded = <<>>
    /\ enc_ctx = 0

InitAcc ==
    /\ acc_pc = "accepting"
    /\ acc_result = "none"
    /\ task = <<>>
    /\ handles = <<>>
    /\ sweep = 1
    /\ kept = <<>>
    /\ log = {}

Init == InitConn /\ InitClock /\ InitEnc /\ InitAcc

\* The start of the specifications that have no connection.
InitIdle == InitNoConn /\ InitClock /\ InitEnc /\ InitAcc

\* ------------------------------------------------------------------------
\* handler
\* ------------------------------------------------------------------------
\* The handler after an iteration with outcome o.
AfterRead(o) ==
    /\ hs' = o.h
    /\ decode_res' = IF o.decode_res = "none" THEN decode_res ELSE o.decode_res
    /\ decoded' = IF o.decode_res = "Some" THEN o.decoded ELSE decoded
    /\ reads_after_decode' = IF o.decode_res = "Some" THEN 0
                             ELSE IF decode_res = "Some" THEN reads_after_decode + 1
                             ELSE reads_after_decode
    /\ pc' = CASE o.next = "read" -> "reading"
               [] o.next = "call" -> "calling"
               [] o.next = "return" -> "done"
               [] OTHER -> "panicked"
    /\ result' = IF o.next = "return" THEN "Ok" ELSE result
    /\ calls' = IF o.next = "call" THEN calls + 1 ELSE calls
    /\ call_req' = IF o.next = "call" THEN o.req ELSE call_req
    /\ panic_at' = o.line

\* stream.read returns Ok(n), n > 0, with the next n bytes of the wire.
Read(n) ==
    /\ pc = "reading"
    /\ n >= 1
    /\ delivered + n <= Len(wire)
    /\ AfterRead(OnRead(hs, SubSeq(wire, delivered + 1, delivered + n), overflow_checks))
    /\ delivered' = delivered + n
    /\ read_ret' = "some"
    /\ UNCHANGED <<overflow_checks, wire, cb_resp, cb_err, resp_bytes, left, written, write_zero>>
    /\ UNCHANGED <<clockVars, encVars, accVars>>

\* ReadZero reporting the close as a failure.
ReadZeroMut ==
    /\ pc = "reading"
    /\ read_ret' = "zero"
    /\ pc' = "done"
    /\ result' = "Err"
    /\ UNCHANGED <<overflow_checks, wire, delivered, hs, decode_res, decoded, reads_after_decode,
                   calls, call_req, cb_resp, cb_err, resp_bytes, left, written, write_zero,
                   panic_at>>
    /\ UNCHANGED <<clockVars, encVars, accVars>>

\* stream.read returns Ok(0): the peer closed.
ReadZero ==
    /\ pc = "reading"
    /\ read_ret' = "zero"
    /\ pc' = "done"
    /\ result' = "Ok"
    /\ UNCHANGED <<overflow_checks, wire, delivered, hs, decode_res, decoded, reads_after_decode,
                   calls, call_req, cb_resp, cb_err, resp_bytes, left, written, write_zero,
                   panic_at>>
    /\ UNCHANGED <<clockVars, encVars, accVars>>

\* stream.read returns Err(e).
ReadErr ==
    /\ pc = "reading"
    /\ read_ret' = "err"
    /\ pc' = "done"
    /\ result' = "Err"
    /\ UNCHANGED <<overflow_checks, wire, delivered, hs, decode_res, decoded, reads_after_decode,
                   calls, call_req, cb_resp, cb_err, resp_bytes, left, written, write_zero,
                   panic_at>>
    /\ UNCHANGED <<clockVars, encVars, accVars>>

\* WriteLoop going back to read the next request once the response is out.
WriteLoopMut(l) == IF l > 0 THEN "writing" ELSE "reading"

\* while left > 0 { write } Ok(()): where the handler is with l bytes left.
WriteLoop(l) == IF l > 0 THEN "writing" ELSE "done"

\* ResponseFor turning the service's own builder into the 500 response.
ResponseForMut(resp, err) ==
    IF err.some
    THEN Body(StatusCode(resp, 500, STR_INTERNAL_SERVER_ERROR), err.text)
    ELSE resp

\* The response process_and_write_response encodes after service.call.
ResponseFor(resp, err) == IF err.some THEN InternalErrorResp(err.text) ELSE resp

\* process_and_write_response with the encoded response bytes.
StartWrite(bytes) ==
    /\ resp_bytes' = bytes
    /\ left' = Len(bytes)
    /\ pc' = WriteLoop(Len(bytes))
    /\ result' = IF WriteLoop(Len(bytes)) = "done" THEN "Ok" ELSE result

\* Now's Display in the context ctx, whose cached clock is cache after it.
CallNow(ctx, cache) ==
    /\ LAST' = [LAST EXCEPT ![ctx] = cache]
    /\ caller' = ctx
    /\ last_text' = [last_text EXCEPT ![ctx] = Buffer(cache)]
    /\ last_call' = [last_call EXCEPT ![ctx] = now]
    /\ first_seen' = [first_seen EXCEPT ![ctx] =
                         IF last_call[ctx] < 0 \/ Buffer(cache) # last_text[ctx] THEN now ELSE @]
    /\ formatted' = [formatted EXCEPT ![ctx] = IF cache # LAST[ctx] THEN Append(@, now) ELSE @]
    /\ now' = now

\* encode in the context ctx, whose cached clock is cache after the call.
EncodeIn(resp, ctx, cache) ==
    /\ CallNow(ctx, cache)
    /\ StartWrite(Encode(resp, Buffer(cache)))

\* service.call returns, in the execution context ctx: the response is
\* encoded, which asks the context's cached clock for the date.
ServiceCall(script, err, ctx) ==
    /\ pc = "calling"
    /\ cb_resp' = RunScript(NewResponse, script)
    /\ cb_err' = err
    /\ EncodeIn(ResponseFor(RunScript(NewResponse, script), err), ctx, NowFmt(LAST[ctx], now))
    /\ UNCHANGED <<overflow_checks, wire, delivered, hs, decode_res, decoded, reads_after_decode,
                   calls, call_req, written, write_zero, read_ret, panic_at>>
    /\ UNCHANGED <<encVars, accVars>>

\* stream.write returns Ok(n), n > 0: the first n bytes left were written.
Write(n) ==
    /\ pc = "writing"
    /\ n >= 1
    /\ n <= Len(resp_bytes)
    /\ written' = written \o Take(resp_bytes, n)
    /\ left' = left - n
    /\ resp_bytes' = Drop(resp_bytes, n)
    /\ pc' = WriteLoop(left - n)
    /\ result' = IF WriteLoop(left - n) = "done" THEN "Ok" ELSE result
    /\ UNCHANGED <<overflow_checks, wire, delivered, hs, decode_res, decoded, reads_after_decode,
                   calls, call_req, cb_resp, cb_err, write_zero, read_ret, panic_at>>
    /\ UNCHANGED <<clockVars, encVars, accVars>>

\* stream.write returns Ok(0): the loop breaks and the result is Ok(()).
WriteZero ==
    /\ pc = "writing"
    /\ write_zero' = TRUE
    /\ pc' = "done"
    /\ result' = "Ok"
    /\ UNCHANGED <<overflow_checks, wire, delivered, hs, decode_res, decoded, reads_after_decode,
                   calls, call_req, cb_resp, cb_err, resp_bytes, left, written, read_ret,
                   panic_at>>
    /\ UNCHANGED <<clockVars, encVars, accVars>>

\* stream.write returns Err(e).
WriteErr ==
    /\ pc = "writing"
    /\ pc' = "done"
    /\ result' = "Err"
    /\ UNCHANGED <<overflow_checks, wire, delivered, hs, decode_res, decoded, reads_after_decode,
                   calls, call_req, cb_resp, cb_err, resp_bytes, left, written, write_zero,
                   read_ret, panic_at>>
    /\ UNCHANGED <<clockVars, encVars, accVars>>

Next ==
    \/ \E n \in 1..Len(wire) : Read(n)
    \/ ReadZero
    \/ ReadErr
    \/ \E script \in Scripts, err \in CallResults, ctx \in Contexts : ServiceCall(script, err, ctx)
    \/ \E n \in 1..Len(resp_bytes) : Write(n)
    \/ WriteZero
    \/ WriteErr

Spec == Init /\ [][Next]_vars

\* ------------------------------------------------------------------------
\* The cached clock on its own: contexts ask it for the date as time passes
\* ------------------------------------------------------------------------
MaxTime == 8

\* Time passes.
Tick ==
    /\ now < MaxTime
    /\ now' = now + 1
    /\ caller' = 0
    /\ UNCHANGED <<LAST, last_text, last_call, first_seen, formatted, connVars, encVars, accVars>>

\* A task running in the context ctx formats date::now().
NowCall(ctx) ==
    /\ CallNow(ctx, NowFmt(LAST[ctx], now))
    /\ UNCHANGED <<connVars, encVars, accVars>>

NextClock ==
    \/ Tick
    \/ \E ctx \in Contexts : NowCall(ctx)

SpecClock == InitIdle /\ [][NextClock]_vars

\* ------------------------------------------------------------------------
\* The response builder on its own: calls on a builder, then encode
\* ------------------------------------------------------------------------
MaxOps == 3

STR_404 == <<52, 48, 52>>
STR_500 == <<53, 48, 48>>
STR_EMPTY == <<>>
STR_RAW == <<0, 255, 13, 10>>

\* What the calls pass: a status is its code, the code's decimal digits and
\* its message.
Statuses ==
    { [code |-> 404, digits |-> STR_404, msg |-> STR_NOT_FOUND],
      [code |-> 500, digits |-> STR_500, msg |-> STR_INTERNAL_SERVER_ERROR] }

HeaderArgs == {<<STR_X_A, STR_X>>, <<STR_X_B, STR_EMPTY>>}

BodyArgs == {STR_EMPTY, STR_HI, STR_HELLO \o STR_HELLO \o STR_HI}

BodyBytesArgs == {STR_RAW}

Building == n_ops < MaxOps /\ enc_ctx = 0

CallStatusCode(st) ==
    /\ Building
    /\ builder' = StatusCode(builder, st.code, st.msg)
    /\ set_status' = [some |-> TRUE, digits |-> st.digits, msg |-> st.msg]
    /\ n_ops' = n_ops + 1
    /\ UNCHANGED <<set_body, added, encoded, enc_ctx, connVars, clockVars, accVars>>

CallHeader(h) ==
    /\ Building
    /\ builder' = Header(builder, h[1], h[2])
    /\ added' = Append(added, h)
    /\ n_ops' = n_ops + 1
    /\ UNCHANGED <<set_status, set_body, encoded, enc_ctx, connVars, clockVars, accVars>>

CallBody(b) ==
    /\ Building
    /\ builder' = Body(builder, b)
    /\ set_body' = b
    /\ n_ops' = n_ops + 1
    /\ UNCHANGED <<set_status, added, encoded, enc_ctx, connVars, clockVars, accVars>>

CallBodyBytes(b) ==
    /\ Building
    /\ builder' = BodyBytes(builder, b)
    /\ set_body' = b
    /\ n_ops' = n_ops + 1
    /\ UNCHANGED <<set_status, added, encoded, enc_ctx, connVars, clockVars, accVars>>

\* encode with the context's cached clock being cache after the call.
Encoded(ctx, cache) ==
    /\ CallNow(ctx, cache)
    /\ encoded' = Encode(builder, Buffer(cache))
    /\ enc_ctx' = ctx

CallEncode(ctx) ==
    /\ enc_ctx = 0
    /\ Encoded(ctx, NowFmt(LAST[ctx], now))
    /\ UNCHANGED <<builder, set_status, set_body, added, n_ops, connVars, accVars>>

\* Time passes while the builder is filled.
EncTick ==
    /\ enc_ctx = 0
    /\ Tick

NextEncode ==
    \/ \E st \in Statuses : CallStatusCode(st)
    \/ \E h \in HeaderArgs : CallHeader(h)
    \/ \E b \in BodyArgs : CallBody(b)
    \/ \E b \in BodyBytesArgs : CallBodyBytes(b)
    \/ \E ctx \in Contexts : CallEncode(ctx)
    \/ EncTick

SpecEncode == InitIdle /\ [][NextEncode]_vars

\* ------------------------------------------------------------------------
\* server.rs: the acceptor task of start_with_listener
\* ------------------------------------------------------------------------
MaxConns == 3

Finished(t) == task[t] # "running"

\* h.try_join(): the handler's result once it has finished, else None.
TryJoin(t) == IF Finished(t) THEN task[t] ELSE "None"

\* Retained dropping every handle it has polled.
RetainedMut(joined) == FALSE

\* The retain closure: a handle stays in the Vec when try_join gave None.
Retained(joined) == joined = "None"

\* listener.accept() returns Ok: a handler is spawned and its handle pushed.
Accept ==
    /\ acc_pc = "accepting"
    /\ Len(task) < MaxConns
    /\ task' = Append(task, "running")
    /\ handles' = Append(handles, Len(task) + 1)
    /\ UNCHANGED <<acc_pc, acc_result, sweep, kept, log, connVars, clockVars, encVars>>

\* while !handles.is_empty(): the drain goes on, or breaks with Err(e).
DrainLoop(hdls) == IF hdls = <<>> THEN "done" ELSE "draining"

\* listener.accept() returns Err(e): the drain starts.
AcceptErr ==
    /\ acc_pc = "accepting"
    /\ acc_pc' = DrainLoop(handles)
    /\ acc_result' = IF DrainLoop(handles) = "done" THEN "AcceptErr" ELSE acc_result
    /\ sweep' = 1
    /\ kept' = <<>>
    /\ UNCHANGED <<task, handles, log, connVars, clockVars, encVars>>

\* retain has visited the handle at sweep, and keeps the handles keep so far.
Visited(keep) ==
    IF sweep < Len(handles)
    THEN /\ sweep' = sweep + 1
         /\ kept' = keep
         /\ UNCHANGED <<handles, acc_pc, acc_result>>
    ELSE /\ sweep' = 1
         /\ kept' = <<>>
         /\ handles' = keep
         /\ acc_pc' = DrainLoop(keep)
         /\ acc_result' = IF DrainLoop(keep) = "done" THEN "AcceptErr" ELSE acc_result

\* retain calls its closure on the next handle: one try_join.
Poll ==
    /\ acc_pc = "draining"
    /\ log' = IF TryJoin(handles[sweep]) = "Err" THEN log \cup {handles[sweep]} ELSE log
    /\ Visited(IF Retained(TryJoin(handles[sweep])) THEN Append(kept, handles[sweep]) ELSE kept)
    /\ UNCHANGED <<task, connVars, clockVars, encVars>>

\* A spawned handler returns r, in its own context.
HandlerReturns(t, r) ==
    /\ t \in 1..Len(task)
    /\ task[t] = "running"
    /\ task' = [task EXCEPT ![t] = r]
    /\ UNCHANGED <<acc_pc, acc_result, handles, sweep, kept, log, connVars, clockVars, encVars>>

NextAccept ==
    \/ Accept
    \/ AcceptErr
    \/ Poll
    \/ \E t \in 1..MaxConns, r \in {"Ok", "Err"} : HandlerReturns(t, r)

SpecAccept == InitIdle /\ [][NextAccept]_vars

\* ------------------------------------------------------------------------
\* decode on its own: a caller that buffers the peer's bytes and calls
\* decode on the buffer whenever it likes
\* ------------------------------------------------------------------------
InitDecodeConn ==
    /\ overflow_checks = TRUE
    /\ wire \in Wires
    /\ delivered = 0
    /\ pc = "none"
    /\ result = "none"
    /\ hs = NewHandler
    /\ decode_res = "none"
    /\ decoded = NoRequest
    /\ reads_after_decode = 0
    /\ calls = 0
    /\ call_req = NoRequest
    /\ cb_resp = NewResponse
    /\ cb_err = NoErr
    /\ resp_bytes = <<>>
    /\ left = 0
    /\ written = <<>>
    /\ write_zero = FALSE
    /\ read_ret = "none"
    /\ panic_at = 0

InitDecode == InitDecodeConn /\ InitClock /\ InitEnc /\ InitAcc

\* The next n bytes of the wire are appended to the buffer.
Extend(n) ==
    /\ pc = "none"
    /\ n >= 1
    /\ delivered + n <= Len(wire)
    /\ hs' = [hs EXCEPT !.bytes_pool = @ \o SubSeq(wire, delivered + 1, delivered + n)]
    /\ delivered' = delivered + n
    /\ decode_res' = "none"
    /\ decoded' = NoRequest
    /\ UNCHANGED <<overflow_checks, wire, pc, result, reads_after_decode, calls, call_req, cb_resp,
                   cb_err, resp_bytes, left, written, write_zero, read_ret, panic_at>>
    /\ UNCHANGED <<clockVars, encVars, accVars>>

\* decode(&mut buf) returned d.
DecodeReturns(d) ==
    /\ hs' = [hs EXCEPT !.bytes_pool = d.buf]
    /\ decode_res' = d.res
    /\ decoded' = d.req

\* request::decode(&mut buf)
DecodeCall ==
    /\ pc = "none"
    /\ DecodeReturns(Decode(hs.bytes_pool))
    /\ UNCHANGED <<overflow_checks, wire, delivered, pc, result, reads_after_decode, calls,
                   call_req, cb_resp, cb_err, resp_bytes, left, written, write_zero, read_ret,
                   panic_at>>
    /\ UNCHANGED <<clockVars, encVars, accVars>>

NextDecode ==
    \/ \E n \in 1..Len(wire) : Extend(n)
    \/ DecodeCall

SpecDecode == InitDecode /\ [][NextDecode]_vars

\* ------------------------------------------------------------------------
\* Properties of the connection handler
\* ------------------------------------------------------------------------
Lower(b) == IF b >= 65 /\ b <= 90 THEN b + 32 ELSE b

EqIgnoreCase(a, b) == Len(a) = Len(b) /\ \A i \in 1..Len(a) : Lower(a[i]) = Lower(b[i])

\* The values of the headers of req named Content-Length in any letter case.
ContentLengthValues(req) ==
    LET hv == Headers(req)
    IN  {hv[i][2] : i \in {j \in 1..Len(hv) : EqIgnoreCase(hv[j][1], STR_CONTENT_LENGTH)}}

\* The handler has handed a request to the service.
Dispatched == pc \in {"calling", "writing", "done"} /\ calls >= 1

\* C1: for every well-formed request and every split of its bytes into
\* non-empty reads, once all its bytes have been read the service has been
\* called with the method, path, headers and body it is called with when
\* the request arrives in one read (and is not called when it is not then);
\* no split makes the handler panic before it gets there.
C1_SplitsAgreeWithSingleRead ==
    wire \in WellFormedWires =>
        /\ pc # "panicked"
        /\ delivered = Len(wire) =>
              LET single == OnRead(NewHandler, wire, overflow_checks)
              IN  IF single.next = "call"
                  THEN Dispatched /\ calls = 1 /\ View(call_req) = View(single.req)
                  ELSE calls = 0

\* C2: when the head declares Content-Length n > 0, then as soon as n bytes
\* have been read after the head the service has been called with exactly
\* those n bytes as the body.
C2_BodyDispatchedOnceReceived ==
    LET d == Decode(wire)
    IN  (/\ wire \in WellFormedWires
         /\ d.res = "Some"
         /\ \E v \in ContentLengthValues(d.req) : FromStrRadix10(v).ok /\ FromStrRadix10(v).val > 0
         /\ delivered = Len(wire)) =>
            /\ Dispatched
            /\ calls = 1
            /\ call_req.body = SomeBody(d.buf)

\* The head of req has no Content-Length header, or has Content-Length: 0.
DeclaresNoBody(req) == \A v \in ContentLengthValues(req) : v = <<48>>

\* C3: when the decoded head has no Content-Length header, or has
\* Content-Length: 0, the service is called in the loop iteration that
\* decoded the head, with no read in between and with no body.
C3_NoBodyDispatchedAtOnce ==
    (decode_res = "Some" /\ DeclaresNoBody(decoded)) =>
        /\ Dispatched
        /\ calls = 1
        /\ reads_after_decode = 0
        /\ call_req.body = NoBody
        /\ View(call_req) = View(decoded)

C3_Witness ==
    /\ decode_res = "Some"
    /\ ContentLengthValues(decoded) = {<<48>>}
    /\ pc = "calling"
    /\ calls = 1

\* C4: the declared body length is the value of the header named
\* Content-Length in any letter case.
C4_ContentLengthAnyCase ==
    decode_res = "Some" =>
        \A v \in ContentLengthValues(decoded) :
            FromStrRadix10(v).ok => decoded.body_len = FromStrRadix10(v).val

\* The bytes of a response with status 500, no caller header and the body text.
Fresh500(text, date) ==
    STR_HTTP11_SP \o <<53, 48, 48, 32>> \o STR_INTERNAL_SERVER_ERROR \o CRLF
        \o STR_SERVER \o CRLF
        \o STR_CONTENT_LENGTH \o STR_COLON_SP \o Dec(Len(text)) \o CRLF
        \o STR_DATE_SP \o date \o CRLF
        \o CRLF
        \o text

\* C5: when the service fails, the bytes written are those of a fresh 500
\* response whose body is the failure's text, whatever the service had put
\* into the builder, and the handler's result is Ok when the write loop ends
\* without a write error.
C5_FailureYieldsFresh500 ==
    (cb_err.some /\ pc \in {"writing", "done"}) =>
        /\ \E c \in Contexts : written \o resp_bytes = Fresh500(cb_err.text, Buffer(LAST[c]))
        /\ (pc = "done" /\ left = 0) => result = "Ok"

C5_Witness ==
    /\ cb_err.some
    /\ cb_resp.headers # <<>>
    /\ cb_resp.response # <<>>
    /\ cb_resp.status_msg # StatusOk
    /\ pc = "done"
    /\ left = 0
    /\ resp_bytes = <<>>
    /\ result = "Ok"

\* C6: when decode reports a malformed head, the handler has terminated
\* without calling the service and without writing a byte.
C6_MalformedSilent ==
    decode_res = "Err" =>
        /\ pc = "done"
        /\ calls = 0
        /\ written = <<>>
        /\ resp_bytes = <<>>

C6_Witness == decode_res = "Err" /\ wire = W_BAD /\ pc = "done" /\ delivered = Len(wire)

\* C9: the service is called at most once on a connection, and once on a
\* connection that reached dispatch; a handler that has reached dispatch
\* never reads from the connection again.
C9_OneRequestPerConnection ==
    /\ [](calls <= 1 /\ (pc \in {"calling", "writing"} => calls = 1))
    /\ [][(calls >= 1 \/ pc \in {"calling", "writing", "done"}) =>
            (pc' # "reading" /\ delivered' = delivered /\ calls' = calls)]_vars

C9_Witness == pc = "done" /\ calls = 1 /\ left = 0 /\ result = "Ok" /\ written # <<>>

\* ------------------------------------------------------------------------
\* Properties of the response encoder
\* ------------------------------------------------------------------------
\* The status the calls set: the last one's code and message, else 200 OK.
ExpectedStatus ==
    IF set_status.some THEN set_status.digits \o <<32>> \o set_status.msg ELSE STR_200_OK

RECURSIVE ExpectedHeaders(_)
ExpectedHeaders(hdrs) ==
    IF hdrs = <<>> THEN <<>>
    ELSE ExpectedHeaders(SubSeq(hdrs, 1, Len(hdrs) - 1))
            \o hdrs[Len(hdrs)][1] \o <<58, 32>> \o hdrs[Len(hdrs)][2] \o <<13, 10>>

\* C7: after any calls of status_code, header, body and body_bytes, encode
\* gives the status line of the last status set (200 OK if none), then the
\* Server header, a Content-Length that reads as the length of the last body
\* set, the Date header, the caller's headers as added and in that order, a
\* blank line and that body.
C7_EncodeLayout ==
    enc_ctx # 0 =>
        LET pre == STR_HTTP11_SP \o ExpectedStatus \o CRLF \o STR_SERVER \o CRLF
                       \o STR_CONTENT_LENGTH \o STR_COLON_SP
            post == CRLF \o STR_DATE_SP \o last_text[enc_ctx] \o CRLF
                        \o ExpectedHeaders(added) \o CRLF \o set_body
            digits == SubSeq(encoded, Len(pre) + 1, Len(encoded) - Len(post))
        IN  /\ IsPrefix(pre, encoded)
            /\ IsSuffix(post, encoded)
            /\ Len(pre) + Len(post) < Len(encoded)
            /\ \A i \in 1..Len(digits) : IsDigit(digits[i])
            /\ FromStrRadix10(digits).val = Len(set_body)

C7_Witness ==
    /\ enc_ctx # 0
    /\ set_status.some
    /\ added # <<>>
    /\ Len(set_body) > 9
    /\ Len(builder.response) > 9

\* ------------------------------------------------------------------------
\* Properties of the cached clock
\* ------------------------------------------------------------------------
\* The seconds since midnight a date text shows.
TextSecs(text) ==
    LET d(i) == text[Len(STR_DATE_PREFIX) + i] - 48
    IN  ((d(1) * 10 + d(2)) * 60 + (d(4) * 10 + d(5))) * 60 + (d(7) * 10 + d(8))

Second(t) == t \div TICKS_PER_SEC

\* C8, as claimed: in a context, a call in the same second of the clock as
\* the call before it returns the same text, and a call in a later second
\* returns a new, strictly later text.
C8_SecondAlignedWindow ==
    [][\A c \in Contexts :
          (caller' = c /\ last_call[c] >= 0) =>
              IF Second(last_call'[c]) = Second(last_call[c])
              THEN last_text'[c] = last_text[c]
              ELSE TextSecs(last_text'[c]) > TextSecs(last_text[c])]_vars

\* C8, amended: in a context, a call no later than one second after the
\* call that first returned the current text returns that text, and a call
\* later than that returns a new, strictly later text.
C8_WindowFromFormat ==
    [][\A c \in Contexts :
          (caller' = c /\ last_call[c] >= 0) =>
              IF last_call'[c] <= first_seen[c] + TICKS_PER_SEC
              THEN last_text'[c] = last_text[c]
              ELSE /\ last_text'[c] # last_text[c]
                   /\ TextSecs(last_text'[c]) > TextSecs(last_text[c])]_vars

C8_Witness ==
    \E c \in Contexts :
        /\ first_seen[c] > TICKS_PER_SEC
        /\ last_call[c] > first_seen[c]
        /\ TextSecs(last_text[c]) > 0

\* ------------------------------------------------------------------------
\* Properties of the acceptor
\* ------------------------------------------------------------------------
\* C10: when accept has failed the acceptor accepts no more; it returns the
\* accept error, and only once every handler it spawned has returned; a
\* handler's failure is logged and is not the acceptor's result; a handler
\* stops running by returning, not by a step of the acceptor.
C10_DrainThenAcceptError ==
    /\ [](acc_pc = "done" =>
            /\ acc_result = "AcceptErr"
            /\ handles = <<>>
            /\ \A t \in 1..Len(task) : Finished(t) /\ (task[t] = "Err" => t \in log))
    /\ [](acc_pc # "done" => acc_result = "none")
    /\ [][acc_pc # "accepting" => (task' = task \/ <<acc_pc, handles, sweep, kept, log>>' = <<acc_pc, handles, sweep, kept, log>>) /\ Len(task') = Len(task)]_vars

C10_Witness ==
    /\ acc_pc = "done"
    /\ Len(task) >= 2
    /\ \E t \in 1..Len(task) : task[t] = "Err"
    /\ \E t \in 1..Len(task) : task[t] = "Ok"


\* ------------------------------------------------------------------------
\* Properties of the write loop, of the decode outcomes and of a closed read
\* ------------------------------------------------------------------------
\* The encoded response of the service's call, with the date of a context.
EncodedResponses == {Encode(ResponseFor(cb_resp, cb_err), Buffer(LAST[c])) : c \in Contexts}

\* C11: process_and_write_response returns Ok only after every byte of the
\* encoded response has been written: when the handler that called the
\* service has returned Ok, no byte is left and the bytes written are
\* exactly the encoded response.
C11_OkAfterAllWritten ==
    (pc = "done" /\ result = "Ok" /\ calls = 1) =>
        /\ left = 0
        /\ resp_bytes = <<>>
        /\ written \in EncodedResponses

\* C12: when decode reports a partial head, the handler goes on to another
\* read of the socket; it does not return.
C12_PartialReadsOn ==
    [][(decode_res = "none" /\ decode_res' = "None") => (pc' = "reading" /\ result' = "none")]_vars

\* C13: a malformed head makes the handler return a failure, which differs
\* from the Ok of a peer close or of a served request.
C13_MalformedFails == (decode_res = "Err" /\ pc = "done") => result = "Err"

\* C14: a read that returns zero bytes, before the head is complete or
\* while the body is being read, ends the handler with Ok, with the service
\* never called and no byte written.
C14_ZeroReadEndsOk ==
    read_ret = "zero" =>
        /\ pc = "done"
        /\ result = "Ok"
        /\ calls = 0
        /\ written = <<>>
        /\ resp_bytes = <<>>

C14_Witness ==
    /\ read_ret = "zero"
    /\ hs.reading_body
    /\ hs.remain_body_len.some
    /\ hs.remain_body_len.v > 0
    /\ Len(hs.bytes_pool) > 0
    /\ pc = "done"
    /\ result = "Ok"

\* C15: a Content-Length value that is no base-10 unsigned integer does not
\* make decode fail: decode returns a request with body_len 0, the handler
\* calls the service with it in the same iteration, with no body phase, and
\* the peer gets the response of the service.
C15_BadLengthIsZero ==
    (wire \in BadLengthWires /\ decode_res # "none") =>
        /\ decode_res = "Some"
        /\ decoded.body_len = 0
        /\ ~hs.reading_body
        /\ hs.remain_body_len = NoneLen
        /\ Dispatched
        /\ calls = 1
        /\ reads_after_decode = 0
        /\ call_req.body = NoBody
        /\ View(call_req) = View(decoded)
        /\ pc \in {"writing", "done"} => written \o resp_bytes \in EncodedResponses

C15_Witness ==
    /\ wire \in BadLengthWires
    /\ decode_res = "Some"
    /\ ~FromStrRadix10(Headers(call_req)[1][2]).ok
    /\ pc = "done"
    /\ calls = 1
    /\ ~cb_err.some
    /\ left = 0
    /\ result = "Ok"

\* ------------------------------------------------------------------------
\* Properties of the cached clock's contexts
\* ------------------------------------------------------------------------
\* C18: in each context more than one second passes between one formatting
\* of the cache and the next; a call that does not format returns the
\* stored text as it was; and a step changes the cache of no context but
\* the one that called.
C18_AtMostOneFormatPerSecond ==
    /\ [](\A c \in Contexts :
             \A i \in 1..(Len(formatted[c]) - 1) :
                 formatted[c][i + 1] - formatted[c][i] > TICKS_PER_SEC)
    /\ [][\A c \in Contexts :
             /\ (c # caller') => (LAST'[c] = LAST[c] /\ formatted'[c] = formatted[c])
             /\ (c = caller' /\ formatted'[c] = formatted[c]) =>
                    /\ LAST'[c] = LAST[c]
                    /\ last_text'[c] = Buffer(LAST[c])]_vars

C18_Witness ==
    \E c, d \in Contexts :
        /\ c # d
        /\ Len(formatted[c]) >= 2
        /\ Len(formatted[d]) >= 1
        /\ last_call[c] > formatted[c][Len(formatted[c])]
        /\ Buffer(LAST[c]) # Buffer(LAST[d])
        /\ LAST[c].next_update # LAST[d].next_update

\* ------------------------------------------------------------------------
\* Properties of the handler's counters
\* ------------------------------------------------------------------------
\* C19: the count of body bytes still to come never goes below zero:
\* neither req.body_len - bytes_pool.len() after the head is decoded nor a
\* later *k -= n underflows, whatever the peer sends after the head.
C19_RemainNeverUnderflows ==
    /\ panic_at \notin {138, 151}
    /\ hs.remain_body_len.some => hs.remain_body_len.v >= 0

\* C20: whenever the handler compares the last 4 committed bytes with CRLF
\* CRLF, the counter of committed bytes is at least 4 and is the length of
\* the buffer, in the head phase and in the body phase, for a read of any
\* size.
C20_TailCheckOnCommittedBytes ==
    [][(pc = "reading" /\ delivered' > delivered /\ panic_at' # 138) =>
          LET c == Committed(hs, SubSeq(wire, delivered + 1, delivered'))
          IN  /\ c.req_bytes_cnt >= 4
              /\ c.req_bytes_cnt = Len(c.bytes_pool)]_vars

\* ------------------------------------------------------------------------
\* Properties of decode and of the ranges of a request
\* ------------------------------------------------------------------------
\* The ranges a request resolves: method, path and the first header_len
\* header names and values.
Ranges(req) ==
    {req.method, req.path} \cup {req.headers[i][j] : i \in 1..req.header_len, j \in 1..2}

InBounds(range, n) == 0 <= range[1] /\ range[1] <= range[2] /\ range[2] <= n

\* The requests the handler holds: the one decode returned, the one kept
\* for the body phase and the one the service was called with.
HeldRequests ==
    {decoded} \cup (IF hs.req_slot # NoRequest THEN {hs.req_slot} ELSE {})
              \cup (IF calls >= 1 THEN {call_req} ELSE {})

\* C16: every range of a request decode returned lies within the request's
\* data, and through the reads and splits that follow the decode it
\* resolves to the bytes the peer sent at those offsets.
C16_RangesStayValid ==
    decode_res = "Some" =>
        \A q \in HeldRequests :
            /\ Ranges(q) = Ranges(decoded)
            /\ \A r \in Ranges(q) :
                   /\ InBounds(r, Len(q.data))
                   /\ Slice(q.data, r) = SubSeq(wire, r[1] + 1, r[2])

C16_Witness ==
    /\ decode_res = "Some"
    /\ reads_after_decode >= 1
    /\ pc = "calling"
    /\ call_req.header_len >= 1
    /\ call_req.body.some
    /\ call_req.body.bytes # <<>>
    /\ Method(call_req) = STR_POST
    /\ Path(call_req) = STR_SLASH_A

\* Where the first blank line of buf ends, 0 if it has none.
HeadEnd(buf) ==
    LET ends == {i \in 4..Len(buf) : SubSeq(buf, i - 3, i) = CRLFCRLF}
    IN  IF ends = {} THEN 0 ELSE CHOOSE i \in ends : \A j \in ends : i <= j

\* C17: a call of decode that returns a partial or a malformed head leaves
\* the buffer as it was; one that returns a request takes the head, up to
\* the end of its blank line, off the front of the buffer as the request's
\* data and leaves the bytes after it in the buffer.
C17_DecodeFrame ==
    [][(delivered' = delivered /\ decode_res' # "none") =>
          IF decode_res' = "Some"
          THEN /\ HeadEnd(hs.bytes_pool) > 0
               /\ decoded'.data = Take(hs.bytes_pool, HeadEnd(hs.bytes_pool))
               /\ hs'.bytes_pool = Drop(hs.bytes_pool, HeadEnd(hs.bytes_pool))
          ELSE hs'.bytes_pool = hs.bytes_pool]_vars

C17_Witness ==
    /\ decode_res = "Some"
    /\ hs.bytes_pool # <<>>
    /\ decoded.data \o hs.bytes_pool = Take(wire, delivered)
    /\ IsSuffix(CRLFCRLF, decoded.data)

====
